---- MODULE Spec2Model ----
(***************************************************************************)
(* The codereviewserver request/response driver of main.py: main launches  *)
(* the server, send_request writes one JSON-RPC line to its stdin and      *)
(* read_response reads one line from its stdout, reports it and tears the  *)
(* child down.  Text is modelled as sequences of one-character strings so  *)
(* that json.dumps and json.loads are computed character by character.     *)
(***************************************************************************)
EXTENDS Integers, Sequences, FiniteSets

(***************************************************************************)
(* Python values as produced by json.loads (and consumed by json.dumps).   *)
(***************************************************************************)
JNull == [t |-> "null"]
JBool(b) == [t |-> "bool", b |-> b]
JNum(n) == [t |-> "num", n |-> n]
JStr(s) == [t |-> "str", s |-> s]
JArr(items) == [t |-> "arr", items |-> items]
\* a dict: its members in insertion order, each [k |-> key text, v |-> value]
JObj(members) == [t |-> "obj", members |-> members]

Member(k, v) == [k |-> k, v |-> v]

\* d[k] = v on a dict's member list: an existing key keeps its position and
\* takes the new value, a new key is appended (a repeated key: last one wins)
DictSet(members, k, v) ==
    IF \E i \in 1..Len(members) : members[i].k = k
    THEN [i \in 1..Len(members) |->
             IF members[i].k = k THEN Member(k, v) ELSE members[i]]
    ELSE Append(members, Member(k, v))

DigitChars == <<"0","1","2","3","4","5","6","7","8","9">>
IsDigit(c) == \E i \in 1..Len(DigitChars) : DigitChars[i] = c
DigitVal(c) == (CHOOSE i \in 1..Len(DigitChars) : DigitChars[i] = c) - 1
IsWhitespace(c) == c \in {" ", "\t", "\n", "\r"}

(***************************************************************************)
(* json.dumps with the default separators ", " and ": ".                   *)
(***************************************************************************)
RECURSIVE IntText(_)
IntText(n) ==
    IF n < 0 THEN <<"-">> \o IntText(-n)
    ELSE IF n < 10 THEN <<DigitChars[n + 1]>>
    ELSE IntText(n \div 10) \o <<DigitChars[(n % 10) + 1]>>

EscapeChar(c) ==
    IF c = "\"" THEN <<"\\", "\"">>
    ELSE IF c = "\\" THEN <<"\\", "\\">>
    ELSE IF c = "\n" THEN <<"\\", "n">>
    ELSE IF c = "\t" THEN <<"\\", "t">>
    ELSE IF c = "\r" THEN <<"\\", "r">>
    ELSE <<c>>

RECURSIVE EscapeText(_)
EscapeText(s) ==
    IF s = <<>> THEN <<>> ELSE EscapeChar(Head(s)) \o EscapeText(Tail(s))

StrText(s) == <<"\"">> \o EscapeText(s) \o <<"\"">>

RECURSIVE json_dumps(_), DumpItems(_), DumpMembers(_)
json_dumps(v) ==
    CASE v.t = "null" -> <<"n","u","l","l">>
      [] v.t = "bool" -> IF v.b THEN <<"t","r","u","e">> ELSE <<"f","a","l","s","e">>
      [] v.t = "num"  -> IntText(v.n)
      [] v.t = "str"  -> StrText(v.s)
      [] v.t = "arr"  -> <<"[">> \o DumpItems(v.items) \o <<"]">>
      [] v.t = "obj"  -> <<"{">> \o DumpMembers(v.members) \o <<"}">>
DumpItems(items) ==
    IF items = <<>> THEN <<>>
    ELSE json_dumps(Head(items))
         \o (IF Len(items) > 1 THEN <<","," ">> \o DumpItems(Tail(items)) ELSE <<>>)
DumpMembers(members) ==
    IF members = <<>> THEN <<>>
    ELSE StrText(Head(members).k) \o <<":"," ">> \o json_dumps(Head(members).v)
         \o (IF Len(members) > 1 THEN <<","," ">> \o DumpMembers(Tail(members)) ELSE <<>>)

(***************************************************************************)
(* json.loads: a result is [ok |-> TRUE, val |-> value, next |-> index of  *)
(* the first character after the value] or Fail (json.JSONDecodeError).    *)
(* Numbers are integers; fractions and exponents are not in the alphabet   *)
(* of the modelled lines.                                                  *)
(***************************************************************************)
Fail == [ok |-> FALSE]
Parsed(v, next) == [ok |-> TRUE, val |-> v, next |-> next]

RECURSIVE SkipWS(_, _)
SkipWS(s, i) ==
    IF i <= Len(s) /\ IsWhitespace(s[i]) THEN SkipWS(s, i + 1) ELSE i

\* does text w occur in s at index i
MatchAt(s, i, w) ==
    /\ i + Len(w) - 1 <= Len(s)
    /\ \A j \in 1..Len(w) : s[i + j - 1] = w[j]

Unescape(c) ==
    CASE c = "\"" -> <<"\"">>
      [] c = "\\" -> <<"\\">>
      [] c = "/"  -> <<"/">>
      [] c = "n"  -> <<"\n">>
      [] c = "t"  -> <<"\t">>
      [] c = "r"  -> <<"\r">>
      [] OTHER    -> <<>>

\* the body of a string literal from index i (after the opening quote)
RECURSIVE ParseStrBody(_, _, _)
ParseStrBody(s, i, acc) ==
    IF i > Len(s) THEN Fail
    ELSE IF s[i] = "\"" THEN Parsed(JStr(acc), i + 1)
    ELSE IF s[i] = "\\" THEN
        IF i + 1 > Len(s) \/ Unescape(s[i + 1]) = <<>> THEN Fail
        ELSE ParseStrBody(s, i + 2, acc \o Unescape(s[i + 1]))
    ELSE IF s[i] \in {"\n", "\t", "\r"} THEN Fail
    ELSE ParseStrBody(s, i + 1, Append(acc, s[i]))

RECURSIVE ParseDigits(_, _, _)
ParseDigits(s, i, n) ==
    IF i <= Len(s) /\ IsDigit(s[i])
    THEN ParseDigits(s, i + 1, 10 * n + DigitVal(s[i]))
    ELSE Parsed(JNum(n), i)

\* -?(0|[1-9][0-9]*)
ParseNumber(s, i) ==
    LET neg == s[i] = "-"
        j == IF neg THEN i + 1 ELSE i
    IN  IF j > Len(s) \/ ~IsDigit(s[j]) THEN Fail
        ELSE LET r == IF s[j] = "0" THEN Parsed(JNum(0), j + 1)
                      ELSE ParseDigits(s, j, 0)
             IN  IF neg THEN Parsed(JNum(-r.val.n), r.next) ELSE r

RECURSIVE ParseValue(_, _), ParseItems(_, _, _), ParseMembers(_, _, _)
ParseValue(s, i) ==
    IF i > Len(s) THEN Fail
    ELSE IF s[i] = "\"" THEN ParseStrBody(s, i + 1, <<>>)
    ELSE IF s[i] = "{" THEN
        LET j == SkipWS(s, i + 1)
        IN  IF j <= Len(s) /\ s[j] = "}" THEN Parsed(JObj(<<>>), j + 1)
            ELSE ParseMembers(s, j, <<>>)
    ELSE IF s[i] = "[" THEN
        LET j == SkipWS(s, i + 1)
        IN  IF j <= Len(s) /\ s[j] = "]" THEN Parsed(JArr(<<>>), j + 1)
            ELSE ParseItems(s, j, <<>>)
    ELSE IF MatchAt(s, i, <<"n","u","l","l">>) THEN Parsed(JNull, i + 4)
    ELSE IF MatchAt(s, i, <<"t","r","u","e">>) THEN Parsed(JBool(TRUE), i + 4)
    ELSE IF MatchAt(s, i, <<"f","a","l","s","e">>) THEN Parsed(JBool(FALSE), i + 5)
    ELSE IF s[i] = "-" \/ IsDigit(s[i]) THEN ParseNumber(s, i)
    ELSE Fail
\* the items of a list from index i (at an item), acc the items so far
ParseItems(s, i, acc) ==
    LET r == ParseValue(s, i)
    IN  IF ~r.ok THEN Fail
        ELSE LET j == SkipWS(s, r.next)
             IN  IF j > Len(s) THEN Fail
                 ELSE IF s[j] = "]" THEN Parsed(JArr(Append(acc, r.val)), j + 1)
                 ELSE IF s[j] = ","
                      THEN ParseItems(s, SkipWS(s, j + 1), Append(acc, r.val))
                 ELSE Fail
\* the members of a dict from index i (at a key), acc the members so far
ParseMembers(s, i, acc) ==
    IF i > Len(s) \/ s[i] # "\"" THEN Fail
    ELSE LET k == ParseStrBody(s, i + 1, <<>>)
         IN  IF ~k.ok THEN Fail
             ELSE LET c == SkipWS(s, k.next)
                  IN  IF c > Len(s) \/ s[c] # ":" THEN Fail
                      ELSE LET r == ParseValue(s, SkipWS(s, c + 1))
                           IN  IF ~r.ok THEN Fail
                               ELSE LET j == SkipWS(s, r.next)
                                        m == DictSet(acc, k.val.s, r.val)
                                    IN  IF j > Len(s) THEN Fail
                                        ELSE IF s[j] = "}" THEN Parsed(JObj(m), j + 1)
                                        ELSE IF s[j] = ","
                                             THEN ParseMembers(s, SkipWS(s, j + 1), m)
                                        ELSE Fail

\* json.loads(s): leading whitespace, one value, trailing whitespace, then
\* the end of the text ("Extra data" otherwise)
json_loads(s) ==
    LET r == ParseValue(s, SkipWS(s, 1))
    IN  IF ~r.ok THEN Fail
        ELSE IF SkipWS(s, r.next) # Len(s) + 1 THEN Fail
        ELSE Parsed(r.val, Len(s) + 1)

(***************************************************************************)
(* The Python operations read_response applies to the decoded response.    *)
(* A result is [exc |-> "none", val |-> v] or [exc |-> the exception].     *)
(***************************************************************************)
Ok(v) == [exc |-> "none", val |-> v]
Exc(e) == [exc |-> e]

\* bool(v)
Truthy(v) ==
    CASE v.t = "null" -> FALSE
      [] v.t = "bool" -> v.b
      [] v.t = "num"  -> v.n # 0
      [] v.t = "str"  -> v.s # <<>>
      [] v.t = "arr"  -> v.items # <<>>
      [] v.t = "obj"  -> v.members # <<>>

\* key in v, for a str key: a dict tests its keys, a list its items, a str
\* its substrings; anything else is not iterable
Contains(v, key) ==
    CASE v.t = "obj" -> Ok(\E i \in 1..Len(v.members) : v.members[i].k = key)
      [] v.t = "arr" -> Ok(\E i \in 1..Len(v.items) :
                              v.items[i].t = "str" /\ v.items[i].s = key)
      [] v.t = "str" -> Ok(\E i \in 1..Len(v.s) : MatchAt(v.s, i, key))
      [] OTHER       -> Exc("TypeError")

\* v[key], for a str key
GetItem(v, key) ==
    CASE v.t = "obj" ->
            IF \E i \in 1..Len(v.members) : v.members[i].k = key
            THEN Ok(v.members[CHOOSE i \in 1..Len(v.members) : v.members[i].k = key].v)
            ELSE Exc("KeyError")
      [] OTHER -> Exc("TypeError")

\* line 43 with the test dropped
LineIsTruthy_always(line) == TRUE

\* line 43: if response_line
LineIsTruthy(line) == line # <<>>

\* line 46 testing a key the server does not send
ErrorTest_wrongKey(response) ==
    LET has == Contains(response, <<"e","r","r">>)
    IN  IF has.exc # "none" THEN has
        ELSE IF ~has.val THEN Ok(FALSE)
        ELSE LET e == GetItem(response, <<"e","r","r">>)
             IN  IF e.exc # "none" THEN e ELSE Ok(Truthy(e.val))

\* line 46: "error" in response and response["error"]
ErrorTest(response) ==
    LET has == Contains(response, <<"e","r","r","o","r">>)
    IN  IF has.exc # "none" THEN has
        ELSE IF ~has.val THEN Ok(FALSE)
        ELSE LET e == GetItem(response, <<"e","r","r","o","r">>)
             IN  IF e.exc # "none" THEN e ELSE Ok(Truthy(e.val))

\* line 47: response['error']
ErrorOf(response) == GetItem(response, <<"e","r","r","o","r">>)

\* line 48: "result" in response
ResultTest(response) == Contains(response, <<"r","e","s","u","l","t">>)

\* line 50 without the ["Content"] subscript
ContentOf_resultOnly(response) == GetItem(response, <<"r","e","s","u","l","t">>)

\* line 50: response["result"]["Content"]
ContentOf(response) ==
    LET r == GetItem(response, <<"r","e","s","u","l","t">>)
    IN  IF r.exc # "none" THEN r ELSE GetItem(r.val, <<"C","o","n","t","e","n","t">>)

(***************************************************************************)
(* The request of main, lines 21-24 and 30.                                *)
(***************************************************************************)
get_pr_params ==
    JArr(<<JObj(<<Member(<<"R","e","p","o">>, JStr(<<"g","t","d","b","o","t">>)),
                  Member(<<"O","w","n","e","r">>, JStr(<<"C","-","H","i","p","p","l","e">>)),
                  Member(<<"N","u","m","b","e","r">>, JNum(25))>>)>>)

request ==
    JObj(<<Member(<<"j","s","o","n","r","p","c">>, JStr(<<"2",".","0">>)),
           Member(<<"m","e","t","h","o","d">>, JStr(<<"R","P","C","H","a","n","d","l","e","r",".","G","e","t","P","R">>)),
           Member(<<"p","a","r","a","m","s">>, get_pr_params),
           Member(<<"i","d">>, JNum(1))>>)

\* line 32 without the newline
RequestLine_noNewline == json_dumps(request)

\* line 32: json.dumps(request) + "\n"
RequestLine == json_dumps(request) \o <<"\n">>

(***************************************************************************)
(* What the server may put on its stdout: ChildLines.  A line as readline  *)
(* returns it ends with its newline, except a last line cut by the end of  *)
(* the stream; <<>> is readline's end-of-stream.                           *)
(***************************************************************************)
EOF_ == <<>>

\* contents and error values the server may send, and the envelopes that
\* carry them, encoded as JSON text
SampleContents ==
    { <<"h","e","l","l","o"," ","w","o","r","l","d">>, <<>>, <<"a","\"","b","\\","c">>, <<"t","w","o","\n","l","i","n","e","s">>, <<"[","1","]">> }

SampleErrors ==
    { JStr(<<"b","a","d"," ","m","e","t","h","o","d">>), JNum(7), JBool(TRUE),
      JObj(<<Member(<<"c","o","d","e">>, JNum(1))>>), JArr(<<JStr(<<"e">>)>>) }

FalsyErrors == { JNull, JStr(<<>>), JNum(0), JBool(FALSE), JArr(<<>>), JObj(<<>>) }

ResultLine(c) ==
    <<"{","\"","r","e","s","u","l","t","\"",":","{","\"","C","o","n","t","e","n","t","\"",":">> \o StrText(c) \o <<"}","}","\n">>

NullErrorResultLine(c) ==
    <<"{","\"","i","d","\"",":","1",",","\"","r","e","s","u","l","t","\"",":","{","\"","C","o","n","t","e","n","t","\"",":">> \o StrText(c) \o <<"}",",","\"","e","r","r","o","r","\"",":","n","u","l","l","}","\n">>

ErrorLine(e) ==
    <<"{","\"","e","r","r","o","r","\"",":">> \o json_dumps(e) \o <<"}","\n">>

ErrorResultLine(e) ==
    <<"{","\"","i","d","\"",":","1",",","\"","r","e","s","u","l","t","\"",":","{","\"","C","o","n","t","e","n","t","\"",":","\"","x","\"","}",",","\"","e","r","r","o","r","\"",":">> \o json_dumps(e) \o <<"}","\n">>

OtherLines ==
    { <<"n","o","t"," ","j","s","o","n"," ","a","t"," ","a","l","l","\n">>,
      <<"\n">>,
      <<"{","}","\n">>,
      <<"4","2","\n">>,
      <<"n","u","l","l","\n">>,
      <<"[","1","]","\n">>,
      <<"[","\"","e","r","r","o","r","\"","]","\n">>,
      <<"[","\"","r","e","s","u","l","t","\"","]","\n">>,
      <<"\"","a","n"," ","e","r","r","o","r"," ","t","e","x","t","\"","\n">>,
      <<"\"","t","h","e"," ","r","e","s","u","l","t","\"","\n">>,
      <<"\"","p","l","a","i","n","\"","\n">>,
      <<"{","\"","r","e","s","u","l","t","\"",":","5","}","\n">>,
      <<"{","\"","r","e","s","u","l","t","\"",":","n","u","l","l","}","\n">>,
      <<"{","\"","r","e","s","u","l","t","\"",":","{","}","}","\n">>,
      <<"{","\"","r","e","s","u","l","t","\"",":","\"","C","o","n","t","e","n","t","\"","}","\n">>,
      <<"{","\"","r","e","s","u","l","t","\"",":","[","\"","C","o","n","t","e","n","t","\"","]","}","\n">>,
      <<"{","\"","r","e","s","u","l","t","\"",":","{","\"","C","o","n","t","e","n","t","\"",":","7","}","}","\n">>,
      <<"{","\"","r","e","s","u","l","t","\"",":","{","\"","C","o","n","t","e","n","t","\"",":","\"","x","\"","}","}"," ","t","r","a","i","l","i","n","g","\n">>,
      <<"{","\"","r","e","s","u","l","t","\"",":","{","\"","C","o","n","t","e","n","t","\"",":","\"","c","u","t">>,
      <<"{","\"","r","e","s","u","l","t","\"",":","{","\"","C","o","n","t","e","n","t","\"",":","\"","n","o"," ","n","e","w","l","i","n","e","\"","}","}">>,
      <<"{","\"","i","d","\"",":","1","}","\n">> }

ChildLines ==
    {ResultLine(c) : c \in SampleContents}
    \cup {NullErrorResultLine(c) : c \in SampleContents}
    \cup {ErrorLine(e) : e \in SampleErrors \cup FalsyErrors}
    \cup {ErrorResultLine(e) : e \in SampleErrors \cup FalsyErrors}
    \cup OtherLines

(***************************************************************************)
(* The driver's state.                                                     *)
(***************************************************************************)
VARIABLES
    pc,             \* the statement the driver is about to execute
    proc,           \* the child: "none", "running", "terminated", "reaped"
    stdin_buf,      \* text written to process.stdin and not yet flushed
    stdin_pipe,     \* text that reached the child's stdin
    stdout_pipe,    \* lines the child wrote to its stdout, not yet read
    stdout_closed,  \* the child closed its stdout (end of the stream)
    response_line,  \* read_response's response_line
    response,       \* read_response's response
    log,            \* what the driver did, in order: prints and calls
    pending,        \* the exception in flight while the finally block runs
    uncaught,       \* the exception that left main
    interrupts      \* KeyboardInterrupts delivered so far

vars == <<pc, proc, stdin_buf, stdin_pipe, stdout_pipe, stdout_closed,
          response_line, response, log, pending, uncaught, interrupts>>

\* how many KeyboardInterrupts one run may receive
MaxInterrupts == 2

\* how many lines the child may write in one run
MaxChildWrites == 2

Event(ev) == [ev |-> ev, kind |-> "-", val |-> JNull]
Printed(kind, val) == [ev |-> "print", kind |-> kind, val |-> val]

(***************************************************************************)
(* Control flow.  main calls main_calls in order after Popen; an exception *)
(* goes where the try statements of read_response send it.                 *)
(***************************************************************************)
\* main with line 23 left in: two requests are sent
main_calls_twoSends == <<"send_request", "send_request", "read_response">>

\* main with its two calls exchanged
main_calls_readFirst == <<"read_response", "send_request">>

\* lines 24-25
main_calls == <<"send_request", "read_response">>

Entry(f) == IF f = "send_request" THEN "send_print" ELSE "sleep"

\* the statement after the k-th call of main returns
AfterCall(k) == IF k < Len(main_calls) THEN Entry(main_calls[k + 1]) ELSE "done"

CallIndex(f) == CHOOSE k \in 1..Len(main_calls) : main_calls[k] = f

\* lines 45-55, the body of the inner try
InnerTry == {"loads", "if_error", "print_rpc", "elif_result", "print_success",
             "print_content", "print_done"}
\* lines 39-59, the body of the outer try (the inner try statement included)
OuterTry == InnerTry \cup {"sleep", "wait_print", "readline", "if_line",
                           "except_decode", "print_noresp"}
\* line 62, the KeyboardInterrupt handler
Handler == {"except_ki"}
\* lines 64-66
Finally == {"fin_print", "terminate", "wait"}

\* read_response without its except json.JSONDecodeError clause
Raise_noDecodeHandler(p, exc) ==
    IF p \in OuterTry /\ exc = "KeyboardInterrupt"
    THEN [pc |-> "except_ki", pending |-> "none", uncaught |-> "none"]
    ELSE IF p \in OuterTry \cup Handler
    THEN [pc |-> "fin_print", pending |-> exc, uncaught |-> "none"]
    ELSE [pc |-> "done", pending |-> "none", uncaught |-> exc]

\* read_response without its except KeyboardInterrupt clause
Raise_noInterruptHandler(p, exc) ==
    IF p \in InnerTry /\ exc = "JSONDecodeError"
    THEN [pc |-> "except_decode", pending |-> "none", uncaught |-> "none"]
    ELSE IF p \in OuterTry \cup Handler
    THEN [pc |-> "fin_print", pending |-> exc, uncaught |-> "none"]
    ELSE [pc |-> "done", pending |-> "none", uncaught |-> exc]

\* where exception exc raised by statement p takes the driver
Raise(p, exc) ==
    IF p \in InnerTry /\ exc = "JSONDecodeError"
    THEN [pc |-> "except_decode", pending |-> "none", uncaught |-> "none"]
    ELSE IF p \in OuterTry /\ exc = "KeyboardInterrupt"
    THEN [pc |-> "except_ki", pending |-> "none", uncaught |-> "none"]
    ELSE IF p \in OuterTry \cup Handler
    THEN [pc |-> "fin_print", pending |-> exc, uncaught |-> "none"]
    ELSE [pc |-> "done", pending |-> "none", uncaught |-> exc]

Goto(p) == pc' = p /\ UNCHANGED <<pending, uncaught>>

Throw(exc) ==
    LET r == Raise(pc, exc)
    IN  pc' = r.pc /\ pending' = r.pending /\ uncaught' = r.uncaught

Say(kind, val) == log' = Append(log, Printed(kind, val))

Init ==
    /\ pc = "main_print"
    /\ proc = "none"
    /\ stdin_buf = <<>>
    /\ stdin_pipe = <<>>
    /\ stdout_pipe = <<>>
    /\ stdout_closed = FALSE
    /\ response_line = <<>>
    /\ response = JNull
    /\ log = <<>>
    /\ pending = "none"
    /\ uncaught = "none"
    /\ interrupts = 0

(***************************************************************************)
(* main                                                                    *)
(***************************************************************************)
\* line 10
MainPrint ==
    /\ pc = "main_print"
    /\ Say("Starting", JNull)
    /\ Goto("popen")
    /\ UNCHANGED <<proc, stdin_buf, stdin_pipe, response_line, response, interrupts, stdout_pipe, stdout_closed>>

\* lines 12-19: the server starts, or the executable cannot be started
Popen ==
    /\ pc = "popen"
    /\ \E started \in BOOLEAN :
          IF started
          THEN /\ proc' = "running"
               /\ log' = Append(log, Event("popen"))
               /\ Goto(AfterCall(0))
          ELSE /\ log' = Append(log, Event("popen_error"))
               /\ Throw("FileNotFoundError")
               /\ UNCHANGED proc
    /\ UNCHANGED <<stdin_buf, stdin_pipe, response_line, response, interrupts, stdout_pipe, stdout_closed>>

(***************************************************************************)
(* send_request                                                            *)
(***************************************************************************)
\* line 31
SendPrint ==
    /\ pc = "send_print"
    /\ Say("Sending", JStr(json_dumps(request)))
    /\ Goto("send_write")
    /\ UNCHANGED <<proc, stdin_buf, stdin_pipe, response_line, response, interrupts, stdout_pipe, stdout_closed>>

\* the text holds a newline
HasNewline(text) == \E i \in 1..Len(text) : text[i] = "\n"

\* line 32: process.stdin is line buffered (bufsize=1, text=True), so a
\* write that holds a newline is flushed to the pipe by the write itself;
\* a closed or broken pipe then raises BrokenPipeError.  A write without a
\* newline stays buffered.
SendWrite ==
    /\ pc = "send_write"
    /\ \E open \in BOOLEAN :
          IF ~HasNewline(RequestLine)
          THEN /\ open
               /\ stdin_buf' = stdin_buf \o RequestLine
               /\ log' = Append(log, Event("write"))
               /\ Goto("send_flush")
               /\ UNCHANGED stdin_pipe
          ELSE IF open
          THEN /\ stdin_pipe' = stdin_pipe \o stdin_buf \o RequestLine
               /\ stdin_buf' = <<>>
               /\ log' = Append(log, Event("write"))
               /\ Goto("send_flush")
          ELSE /\ stdin_buf' = stdin_buf \o RequestLine
               /\ log' = Append(log, Event("write_error"))
               /\ Throw("BrokenPipeError")
               /\ UNCHANGED stdin_pipe
    /\ UNCHANGED <<proc, response_line, response, interrupts, stdout_pipe, stdout_closed>>

\* line 33: flushes what is buffered; with something buffered the pipe may
\* be broken
SendFlush ==
    /\ pc = "send_flush"
    /\ \E open \in BOOLEAN :
          IF open \/ stdin_buf = <<>>
          THEN /\ stdin_pipe' = stdin_pipe \o stdin_buf
               /\ stdin_buf' = <<>>
               /\ log' = Append(log, Event("flush"))
               /\ Goto(AfterCall(CallIndex("send_request")))
          ELSE /\ log' = Append(log, Event("write_error"))
               /\ Throw("BrokenPipeError")
               /\ UNCHANGED <<stdin_buf, stdin_pipe>>
    /\ UNCHANGED <<proc, response_line, response, interrupts, stdout_pipe, stdout_closed>>

(***************************************************************************)
(* read_response                                                           *)
(***************************************************************************)
\* line 39
Sleep ==
    /\ pc = "sleep"
    /\ log' = Append(log, Event("sleep"))
    /\ Goto("wait_print")
    /\ UNCHANGED <<proc, stdin_buf, stdin_pipe, response_line, response, interrupts, stdout_pipe, stdout_closed>>

\* line 41
WaitPrint ==
    /\ pc = "wait_print"
    /\ Say("Waiting", JNull)
    /\ Goto("readline")
    /\ UNCHANGED <<proc, stdin_buf, stdin_pipe, response_line, response, interrupts, stdout_pipe, stdout_closed>>

\* line 42 as a read of everything the child has written so far, of which
\* the last line is kept
Readline_drain ==
    /\ pc = "readline"
    /\ ~(~stdout_closed /\ stdout_pipe = <<>>)
    /\ IF stdout_pipe = <<>>
       THEN response_line' = <<>>
       ELSE response_line' = stdout_pipe[Len(stdout_pipe)]
    /\ stdout_pipe' = <<>>
    /\ log' = Append(log, [ev |-> "readline", kind |-> "-", val |-> [t |-> "null"]])
    /\ pc' = "if_line"
    /\ UNCHANGED <<pending, uncaught, proc, stdin_buf, stdin_pipe, response,
                   interrupts, stdout_closed>>

\* a line is complete when it ends with its newline
Complete(line) == line # <<>> /\ line[Len(line)] = "\n"

\* readline cannot return yet: no complete line is there and the stream
\* is still open
ReadBlocks(pipe, closed) ==
    ~closed /\ (IF pipe = <<>> THEN TRUE ELSE ~Complete(Head(pipe)))

\* line 42: the first line of the child's output, or "" at end-of-stream;
\* blocks while there is neither
Readline ==
    /\ pc = "readline"
    /\ ~ReadBlocks(stdout_pipe, stdout_closed)
    /\ IF stdout_pipe = <<>>
       THEN response_line' = EOF_ /\ UNCHANGED stdout_pipe
       ELSE response_line' = Head(stdout_pipe) /\ stdout_pipe' = Tail(stdout_pipe)
    /\ log' = Append(log, Event("readline"))
    /\ Goto("if_line")
    /\ UNCHANGED <<proc, stdin_buf, stdin_pipe, response, interrupts, stdout_closed>>

\* line 43
IfLine ==
    /\ pc = "if_line"
    /\ Goto(IF LineIsTruthy(response_line) THEN "loads" ELSE "print_noresp")
    /\ UNCHANGED <<proc, stdin_buf, stdin_pipe, response_line, response, log, interrupts, stdout_pipe, stdout_closed>>

\* line 45
Loads ==
    /\ pc = "loads"
    /\ LET r == json_loads(response_line)
       IN  IF r.ok
           THEN response' = r.val /\ Goto("if_error")
           ELSE Throw("JSONDecodeError") /\ UNCHANGED response
    /\ UNCHANGED <<proc, stdin_buf, stdin_pipe, response_line, log, interrupts, stdout_pipe, stdout_closed>>

\* line 46
IfError ==
    /\ pc = "if_error"
    /\ LET r == ErrorTest(response)
       IN  IF r.exc # "none" THEN Throw(r.exc)
           ELSE Goto(IF r.val THEN "print_rpc" ELSE "elif_result")
    /\ UNCHANGED <<proc, stdin_buf, stdin_pipe, response_line, response, log, interrupts, stdout_pipe, stdout_closed>>

\* line 47
PrintRpc ==
    /\ pc = "print_rpc"
    /\ LET e == ErrorOf(response)
       IN  IF e.exc # "none" THEN Throw(e.exc) /\ UNCHANGED log
           ELSE Say("RPCError", e.val) /\ Goto("fin_print")
    /\ UNCHANGED <<proc, stdin_buf, stdin_pipe, response_line, response, interrupts, stdout_pipe, stdout_closed>>

\* line 48
ElifResult ==
    /\ pc = "elif_result"
    /\ LET r == ResultTest(response)
       IN  IF r.exc # "none" THEN Throw(r.exc)
           ELSE Goto(IF r.val THEN "print_success" ELSE "fin_print")
    /\ UNCHANGED <<proc, stdin_buf, stdin_pipe, response_line, response, log, interrupts, stdout_pipe, stdout_closed>>

\* line 49
PrintSuccess ==
    /\ pc = "print_success"
    /\ Say("Success", JNull)
    /\ Goto("print_content")
    /\ UNCHANGED <<proc, stdin_buf, stdin_pipe, response_line, response, interrupts, stdout_pipe, stdout_closed>>

\* line 50
PrintContent ==
    /\ pc = "print_content"
    /\ LET c == ContentOf(response)
       IN  IF c.exc # "none"
           THEN log' = Append(log, Event("get_content")) /\ Throw(c.exc)
           ELSE /\ log' = log \o <<Event("get_content"), Printed("Content", c.val)>>
                /\ Goto("print_done")
    /\ UNCHANGED <<proc, stdin_buf, stdin_pipe, response_line, response, interrupts, stdout_pipe, stdout_closed>>

\* line 55
PrintDone ==
    /\ pc = "print_done"
    /\ Say("DoneContent", JNull)
    /\ Goto("fin_print")
    /\ UNCHANGED <<proc, stdin_buf, stdin_pipe, response_line, response, interrupts, stdout_pipe, stdout_closed>>

\* lines 56-57
ExceptDecode ==
    /\ pc = "except_decode"
    /\ Say("DecodeFailed", JNull)
    /\ Goto("fin_print")
    /\ UNCHANGED <<proc, stdin_buf, stdin_pipe, response_line, response, interrupts, stdout_pipe, stdout_closed>>

\* lines 58-59
PrintNoResponse ==
    /\ pc = "print_noresp"
    /\ Say("NoResponse", JNull)
    /\ Goto("fin_print")
    /\ UNCHANGED <<proc, stdin_buf, stdin_pipe, response_line, response, interrupts, stdout_pipe, stdout_closed>>

\* lines 61-62
ExceptInterrupt ==
    /\ pc = "except_ki"
    /\ Say("Interrupted", JNull)
    /\ Goto("fin_print")
    /\ UNCHANGED <<proc, stdin_buf, stdin_pipe, response_line, response, interrupts, stdout_pipe, stdout_closed>>

\* lines 63-64
FinallyPrint ==
    /\ pc = "fin_print"
    /\ Say("Terminating", JNull)
    /\ Goto("terminate")
    /\ UNCHANGED <<proc, stdin_buf, stdin_pipe, response_line, response, interrupts, stdout_pipe, stdout_closed>>

\* line 65
Terminate ==
    /\ pc = "terminate"
    /\ proc' = "terminated"
    /\ log' = Append(log, Event("terminate"))
    /\ Goto("wait")
    /\ UNCHANGED <<stdin_buf, stdin_pipe, response_line, response, interrupts, stdout_pipe, stdout_closed>>

\* line 66, then the end of the finally block: an exception in flight goes
\* on to the caller, where nothing catches it; otherwise read_response
\* returns to main
Wait ==
    /\ pc = "wait"
    /\ proc' = "reaped"
    /\ log' = Append(log, Event("wait"))
    /\ IF pending # "none"
       THEN pc' = "done" /\ uncaught' = pending /\ pending' = "none"
       ELSE Goto(AfterCall(CallIndex("read_response")))
    /\ UNCHANGED <<stdin_buf, stdin_pipe, response_line, response, interrupts, stdout_pipe, stdout_closed>>

(***************************************************************************)
(* The server.  While it runs it may write a line to its stdout or close   *)
(* its stdout, at any moment and in any number up to MaxChildWrites; it is *)
(* never obliged to.  After a line without a newline it can only close.    *)
(* Its first line is any of ChildLines, the later ones are FurtherLines.   *)
(***************************************************************************)
FurtherLines == { ResultLine(<<"h","e","l","l","o"," ","w","o","r","l","d">>), <<"n","o","t"," ","j","s","o","n"," ","a","t"," ","a","l","l","\n">> }

\* lines of the child that readline has taken
LinesTaken == IF response_line # EOF_ THEN 1 ELSE 0

ChildWrite ==
    /\ proc = "running"
    /\ ~stdout_closed
    /\ LinesTaken + Len(stdout_pipe) < MaxChildWrites
    /\ IF stdout_pipe = <<>> THEN TRUE ELSE Complete(stdout_pipe[Len(stdout_pipe)])
    /\ \E l \in (IF LinesTaken + Len(stdout_pipe) = 0 THEN ChildLines ELSE FurtherLines) :
          stdout_pipe' = Append(stdout_pipe, l)
    /\ UNCHANGED <<pc, proc, stdin_buf, stdin_pipe, stdout_closed, response_line,
                   response, log, pending, uncaught, interrupts>>

ChildClose ==
    /\ proc = "running"
    /\ ~stdout_closed
    /\ stdout_closed' = TRUE
    /\ UNCHANGED <<pc, proc, stdin_buf, stdin_pipe, stdout_pipe, response_line,
                   response, log, pending, uncaught, interrupts>>

(***************************************************************************)
(* Ctrl-C: KeyboardInterrupt is raised in the main thread at the statement *)
(* the driver has reached, which then has no effect.                       *)
(***************************************************************************)
Interrupt ==
    /\ pc # "done"
    /\ interrupts < MaxInterrupts
    /\ interrupts' = interrupts + 1
    /\ Throw("KeyboardInterrupt")
    /\ UNCHANGED <<proc, stdin_buf, stdin_pipe, response_line, response, log, stdout_pipe, stdout_closed>>

\* the steps the driver takes by itself
Driver ==
    \/ MainPrint \/ Popen
    \/ SendPrint \/ SendWrite \/ SendFlush
    \/ Sleep \/ WaitPrint \/ Readline \/ IfLine \/ Loads \/ IfError
    \/ PrintRpc \/ ElifResult \/ PrintSuccess \/ PrintContent \/ PrintDone
    \/ ExceptDecode \/ PrintNoResponse \/ ExceptInterrupt
    \/ FinallyPrint \/ Terminate \/ Wait

Next ==
    \/ Driver
    \/ ChildWrite \/ ChildClose
    \/ Interrupt

Spec == Init /\ [][Next]_vars

(***************************************************************************)
(* Reading the log.                                                        *)
(***************************************************************************)
Finished == pc = "done"

\* the positions of the log where event ev was recorded
At(ev) == {i \in 1..Len(log) : log[i].ev = ev}
Count(ev) == Cardinality(At(ev))

\* the positions of the log where a message of this kind was printed
SaidAt(kind) == {i \in 1..Len(log) : log[i].ev = "print" /\ log[i].kind = kind}
Said(kind) == SaidAt(kind) # {}

\* the four outcomes of an exchange
OutcomeKinds == {"Success", "RPCError", "DecodeFailed", "NoResponse"}
OutcomesAt == {i \in 1..Len(log) : log[i].ev = "print" /\ log[i].kind \in OutcomeKinds}

\* every member of I is before every member of J
Before(I, J) == \A i \in I : \A j \in J : i < j

\* terminate() then wait(), each called once and completed
TornDown ==
    /\ Count("terminate") = 1
    /\ Count("wait") = 1
    /\ Before(At("terminate"), At("wait"))
    /\ proc = "reaped"

\* readline has returned
LineRead == Count("readline") > 0

\* the run read its line and was not interrupted
QuietRun == Finished /\ LineRead /\ interrupts = 0

\* the exceptions of the error kinds LaunchError, WriteError, DecodeError
\* and Interrupted
ErrorKindExceptions ==
    {"FileNotFoundError", "BrokenPipeError", "JSONDecodeError", "KeyboardInterrupt"}

\* the line is a structured envelope: a JSON object with an error field or
\* with a result field that is an object holding Content
IsEnvelope(line) ==
    LET r == json_loads(line)
    IN  /\ r.ok
        /\ r.val.t = "obj"
        /\ \/ Contains(r.val, <<"e","r","r","o","r">>).val
           \/ /\ Contains(r.val, <<"r","e","s","u","l","t">>).val
              /\ GetItem(r.val, <<"r","e","s","u","l","t">>).val.t = "obj"
              /\ Contains(GetItem(r.val, <<"r","e","s","u","l","t">>).val, <<"C","o","n","t","e","n","t">>).val

(***************************************************************************)
(* Claims                                                                  *)
(***************************************************************************)

\* the launch was attempted, whatever its outcome
LaunchTried == Count("popen") + Count("popen_error") > 0

\* C1: every run that attempted the launch, whatever the launch outcome
\* and the error path taken, has called terminate() and then wait()
\* exactly once when it ends.
C1_TeardownExactlyOnce ==
    (Finished /\ LaunchTried) => (Count("terminate") = 1 /\ Count("wait") = 1
                 /\ Before(At("terminate"), At("wait")))

\* C2: a run whose child was launched and that received a KeyboardInterrupt
\* ends with terminate() and wait() both completed on the child.
C2_InterruptReachesTeardown ==
    (Finished /\ proc # "none" /\ interrupts > 0) => proc = "reaped"

\* C3: a run in which the write or flush of the request failed still calls
\* terminate() and then wait() before it ends.
C3_WriteErrorTearsDown ==
    (Finished /\ Count("write_error") > 0) => TornDown

\* C4: whenever readline is about to run or has run, the request has been
\* written and flushed: the write and the flush are in the log before any
\* readline, and the whole request line has reached the child's stdin.
C4_WriteBeforeRead ==
    (pc = "readline" \/ LineRead) =>
        /\ At("write") # {} /\ At("flush") # {}
        /\ Before(At("write"), At("flush"))
        /\ Before(At("flush"), At("readline"))
        /\ stdin_pipe = RequestLine
        /\ stdin_buf = <<>>

\* a response line has been read after the request was written and flushed
C4_Witness ==
    /\ LineRead
    /\ response_line \in ChildLines
    /\ stdin_pipe = RequestLine
    /\ Count("flush") = 1

\* C5: every run that read a response line or the end of the stream ends
\* having reported exactly one of the four outcomes.
C5_ExactlyOneOutcome ==
    QuietRun => Cardinality(OutcomesAt) = 1

\* C6: a response line that is not a structured envelope is reported as a
\* decode failure, and no exception leaves read_response.
C6_MalformedIsDecodeFailure ==
    (QuietRun /\ LineIsTruthy(response_line) /\ ~IsEnvelope(response_line)) =>
        (Said("DecodeFailed") /\ uncaught = "none")

\* C7: no run ends with LaunchError, WriteError, DecodeError or Interrupted
\* leaving main uncaught, and no run leaves a launched child without its
\* terminate() and wait().
C7_ErrorsCaughtTeardownKept ==
    Finished => (uncaught \notin ErrorKindExceptions
                 /\ (proc # "none" => TornDown))

\* C8 as stated: for an envelope with an error field, a null error
\* included, and whether or not a result is present, the run reports an
\* RPC error carrying that value, never SUCCESS, and never reads
\* result.Content.
C8_AnyErrorFieldIsRpcError ==
    \A e \in SampleErrors \cup {JNull} :
        (LineRead /\ response_line \in {ErrorLine(e), ErrorResultLine(e)}) =>
            /\ ~Said("Success")
            /\ Count("get_content") = 0
            /\ QuietRun => (\E i \in SaidAt("RPCError") : log[i].val = e)

\* C8 amended: for an envelope whose error field is truthy (not null,
\* false, 0 or empty), with or without a result, the run never reports
\* SUCCESS and never reads result.Content, and an uninterrupted run reports
\* exactly one outcome, the RPC error carrying the error value.
C8_TruthyErrorIsRpcError ==
    \A e \in SampleErrors :
        (LineRead /\ response_line \in {ErrorLine(e), ErrorResultLine(e)}) =>
            /\ ~Said("Success")
            /\ Count("get_content") = 0
            /\ QuietRun =>
                  /\ Cardinality(OutcomesAt) = 1
                  /\ \E i \in SaidAt("RPCError") : log[i].val = e

\* an envelope with both a truthy error and a result was reported
C8_Witness ==
    /\ QuietRun
    /\ response_line = ErrorResultLine(JStr(<<"b","a","d"," ","m","e","t","h","o","d">>))
    /\ Said("RPCError")

\* C9: for the line {"result":{"Content": c}} the run never reports an RPC
\* error or a decode failure, and an uninterrupted run reports SUCCESS and
\* prints exactly the string c as the content.
C9_ResultContentIsSuccess ==
    \A c \in SampleContents :
        (LineRead /\ response_line = ResultLine(c)) =>
            /\ ~Said("RPCError")
            /\ ~Said("DecodeFailed")
            /\ QuietRun =>
                  /\ Cardinality(SaidAt("Success")) = 1
                  /\ Cardinality(SaidAt("Content")) = 1
                  /\ \A i \in SaidAt("Content") : log[i].val = JStr(c)
                  /\ Before(SaidAt("Success"), SaidAt("Content"))

\* a content holding a quote and a backslash was reported
C9_Witness ==
    /\ QuietRun
    /\ response_line = ResultLine(<<"a","\"","b","\\","c">>)
    /\ Said("Content")

\* C10: when readline returns the end of the stream, no outcome other than
\* "No response received" is ever reported, and an uninterrupted run
\* reports it exactly once and then calls terminate() and wait().
C10_EofIsEmptyResponse ==
    (LineRead /\ response_line = EOF_) =>
        /\ \A i \in OutcomesAt : log[i].kind = "NoResponse"
        /\ QuietRun =>
              /\ Cardinality(SaidAt("NoResponse")) = 1
              /\ TornDown
              /\ Before(SaidAt("NoResponse"), At("terminate"))
              /\ uncaught = "none"

\* the end of the stream was read, reported, and the child torn down
C10_Witness ==
    /\ QuietRun
    /\ response_line = EOF_
    /\ Said("NoResponse")
    /\ proc = "reaped"

\* lines that are not JSON text
NonJsonLines ==
    { <<"n","o","t"," ","j","s","o","n"," ","a","t"," ","a","l","l","\n">>,
      <<"\n">>,
      <<"{","\"","r","e","s","u","l","t","\"",":","{","\"","C","o","n","t","e","n","t","\"",":","\"","x","\"","}","}"," ","t","r","a","i","l","i","n","g","\n">>,
      <<"{","\"","r","e","s","u","l","t","\"",":","{","\"","C","o","n","t","e","n","t","\"",":","\"","c","u","t">> }

\* C11: when the line read is not JSON, no outcome other than the decode
\* failure is ever reported and no exception is left in flight, and an
\* uninterrupted run reports the decode failure once and afterwards calls
\* terminate() and then wait().
C11_NonJsonIsDecodeFailureThenTeardown ==
    (LineRead /\ response_line \in NonJsonLines) =>
        /\ \A i \in OutcomesAt : log[i].kind = "DecodeFailed"
        /\ interrupts = 0 => pending = "none"
        /\ QuietRun =>
              /\ Cardinality(SaidAt("DecodeFailed")) = 1
              /\ Before(SaidAt("DecodeFailed"), At("terminate"))
              /\ TornDown
              /\ uncaught = "none"

\* the line "not json at all" was reported and the child torn down
C11_Witness ==
    /\ QuietRun
    /\ response_line = <<"n","o","t"," ","j","s","o","n"," ","a","t"," ","a","l","l","\n">>
    /\ Said("DecodeFailed")
    /\ proc = "reaped"

\* C13 as stated: at most one request is written, and exactly one in every
\* run whose launch succeeded and whose write did not fail.
C13_ExactlyOneRequest ==
    /\ Count("write") <= 1
    /\ (Finished /\ Count("popen") = 1 /\ Count("write_error") = 0) =>
          Count("write") = 1

\* C13 amended: at most one request is ever written and the child's stdin
\* never holds more than the one request line; a run whose launch
\* succeeded and whose write did not fail ends without having written it
\* only when a KeyboardInterrupt ended it before the write, and a run that
\* got as far as read_response has written exactly one.
C13_OneRequestUnlessInterrupted ==
    /\ Count("write") <= 1
    /\ stdin_pipe \in {<<>>, RequestLine}
    /\ (Finished /\ Count("popen") = 1 /\ Count("write_error") = 0
          /\ Count("write") = 0) =>
          (uncaught = "KeyboardInterrupt" /\ Count("sleep") = 0)
    /\ Count("sleep") > 0 => Count("write") = 1

\* a run ended after a response was read, with one request written and a
\* further line of the child left unanswered
C13_Witness ==
    /\ Finished
    /\ LineRead
    /\ Count("write") = 1
    /\ stdin_pipe = RequestLine
    /\ stdout_pipe # <<>>

\* the number of newline characters in a text
Newlines(text) == Cardinality({i \in 1..Len(text) : text[i] = "\n"})

\* C14: whatever reached the child's stdin is the request envelope as one
\* JSON text followed by exactly one newline; once the flush has returned
\* nothing is left buffered; and the flush follows the write directly, with
\* no sleep and no readline in between.
C14_RequestLineFlushedAtOnce ==
    /\ stdin_pipe # <<>> =>
          /\ Complete(stdin_pipe)
          /\ Newlines(stdin_pipe) = 1
          /\ json_loads(stdin_pipe).ok
          /\ json_loads(stdin_pipe).val = request
    /\ At("flush") # {} => (stdin_buf = <<>> /\ stdin_pipe # <<>>)
    /\ pc = "send_flush" => log[Len(log)].ev = "write"
    /\ \A i \in At("write") : i < Len(log) => log[i + 1].ev = "flush"

\* send_request returned and the request is with the child
C14_Witness ==
    /\ Count("flush") = 1
    /\ stdin_buf = <<>>
    /\ stdin_pipe # <<>>
    /\ pc = "sleep"

\* C15: a run whose child was launched and that has not ended can always
\* take its next step by itself, so that it cannot stay in a state short of
\* teardown for ever when the child writes nothing, keeps its stdout open
\* and no interrupt arrives.
C15_NeverWaitsOnChild ==
    (proc # "none" /\ ~Finished) => ENABLED Driver

\* C16: readline is called at most once in a run and exactly once in a run
\* that went through read_response uninterrupted; it takes the first line
\* the child wrote and nothing else, and once it has returned no line is
\* taken from the child's stdout any more.
C16_OneLineRead ==
    /\ [](Count("readline") <= 1)
    /\ []((Finished /\ proc = "reaped" /\ interrupts = 0) => Count("readline") = 1)
    /\ [][(~LineRead /\ LineRead' /\ stdout_pipe # <<>>) =>
             (response_line' = Head(stdout_pipe) /\ stdout_pipe' = Tail(stdout_pipe))]_vars
    /\ [][LineRead =>
             /\ Len(stdout_pipe') >= Len(stdout_pipe)
             /\ SubSeq(stdout_pipe', 1, Len(stdout_pipe)) = stdout_pipe]_vars

\* the run ended with a second line of the child still unread
C16_Witness ==
    /\ Finished
    /\ proc = "reaped"
    /\ Count("readline") = 1
    /\ response_line # EOF_
    /\ stdout_pipe # <<>>

\* C17: a KeyboardInterrupt raised at a statement of the try body (the
\* sleep, the readline, the reporting) goes to the handler with nothing
\* left in flight; a run that received this one interrupt reports
\* "Interrupted", then calls terminate() and wait(), and no exception
\* leaves read_response.
C17_InterruptAbsorbed ==
    /\ [][(interrupts' = interrupts + 1 /\ pc \in OuterTry) =>
             (pc' = "except_ki" /\ pending' = "none" /\ uncaught' = "none")]_vars
    /\ []((interrupts = 1 /\ (pc = "except_ki" \/ Said("Interrupted"))) =>
             (pending = "none" /\ uncaught = "none"))
    /\ []((Finished /\ interrupts = 1 /\ Said("Interrupted")) =>
             /\ Cardinality(SaidAt("Interrupted")) = 1
             /\ TornDown
             /\ Before(SaidAt("Interrupted"), At("terminate"))
             /\ uncaught = "none")

\* an interrupt during the reporting of a line was absorbed
C17_Witness ==
    /\ Finished
    /\ interrupts = 1
    /\ LineRead
    /\ Said("Interrupted")
    /\ proc = "reaped"
    /\ uncaught = "none"

\* C18: terminate() comes before wait(), wait() is never called without
\* terminate(), and every write, flush and readline of the run comes
\* before terminate(): from terminate() on the driver touches neither the
\* child's stdin nor its stdout.
C18_TeardownIsLast ==
    /\ Before(At("terminate"), At("wait"))
    /\ At("wait") # {} => At("terminate") # {}
    /\ Before(At("write") \cup At("flush") \cup At("readline") \cup At("write_error"),
              At("terminate") \cup At("wait"))
    /\ proc \in {"terminated", "reaped"} => pc \in {"wait", "done"}

\* a full exchange followed by teardown
C18_Witness ==
    /\ Finished
    /\ Count("write") = 1
    /\ Count("readline") = 1
    /\ Count("terminate") = 1
    /\ Count("wait") = 1
====
